---- MODULE Spec2Model ----
(***************************************************************************)
(* A model of go-goods/tmplmgr (src/tmplmgr.go): a Template manager that   *)
(* lazily compiles a base html/template with always-included block globs   *)
(* and registered functions, and caches per-call glob compositions.        *)
(*                                                                         *)
(* Every method is modelled as the sequence of its shared-memory steps, so *)
(* that goroutines interleave exactly where the code lets them: at lock    *)
(* acquisitions, and at the reads and writes of the Template's fields.     *)
(***************************************************************************)
EXTENDS Integers, Sequences, FiniteSets, TLC

\* ------------------------------------------------------------------ bounds

\* longest always-blocks list (t.blocks) the model lets Blocks build
MaxBlocks == 1

\* longest glob list handed to getCachedGlobs where its key is examined
MaxGlobs == 2

\* the goroutines calling into one *Template
Threads == {1, 2}

\* ---------------------------------------------------------------- inputs

\* Mode is a bool: Development = true, Production = false
Development == TRUE
Production == FALSE

\* names and callables handed to Call; a callable either satisfies
\* html/template's function-table contract or makes Funcs panic
CallArgs == {<<"f", "valid">>, <<"f", "invalid">>, <<"g", "valid">>}

\* glob patterns; "x" matches no parseable file, so ParseGlob fails on it
BlockPatterns == {"a", "x"}
ExecGlobLists == {<< >>, <<"a">>, <<"b">>, <<"a", "x">>}

Matches(glob) == glob # "x"

\* glob lists for the cache key: patterns are any strings, a pattern may
\* hold a comma (a literal character to path/filepath.Match)
KeyPatterns == {"a", "b", "ab", "a,b"}
KeyLists == UNION {[1 .. k -> KeyPatterns] : k \in 1 .. MaxGlobs}

\* the argument lists Blocks may be given while t.blocks has length n
BlockArgs(n) ==
    {gs \in UNION {[1 .. k -> BlockPatterns] : k \in 0 .. MaxBlocks} :
        n + Len(gs) <= MaxBlocks}

\* ---------------------------------------------------- *template.Template

\* A *template.Template value.  nil: the nil pointer.  base: it holds the
\* parsed base file (it is a compiled base or a clone of one).  funcs: the
\* bound function table.  blocks: the globs merged into it, in order.
\* executed: html/template has escaped it (it was rendered), after which
\* Clone refuses it.
NoTemplate ==
    [nil |-> TRUE, base |-> FALSE, funcs |-> << >>, blocks |-> << >>, executed |-> FALSE]

\* template.New, ParseFiles and Funcs
NewTemplate(base, fm) ==
    [nil |-> FALSE, base |-> base, funcs |-> fm, blocks |-> << >>, executed |-> FALSE]

NoFuncs == [n \in {} |-> "valid"]
NoCache == [k \in {} |-> NoTemplate]

\* html/template's (*Template).Clone: an error, and a nil result, once the
\* template has been executed.  The caller drops the error.
Clone(tm) == IF tm.executed THEN NoTemplate ELSE tm

\* html/template's (*Template).ParseGlob: an error and a nil template when the
\* pattern matches nothing parseable; on a nil receiver it starts a new
\* template holding only the files of the pattern.
ParseGlob(tm, glob) ==
    IF ~Matches(glob)
    THEN [tmpl |-> NoTemplate, err |-> "glob"]
    ELSE [tmpl |-> [(IF tm.nil THEN NewTemplate(FALSE, NoFuncs) ELSE tm)
                        EXCEPT !.blocks = Append(@, glob)],
          err |-> "none"]

\* for _, glob := range globs { tmpl, err = tmpl.ParseGlob(glob); if err != nil { return } }
RECURSIVE ParseGlobs(_, _)
ParseGlobs(tm, globs) ==
    IF globs = << >>
    THEN [tmpl |-> tm, err |-> "none"]
    ELSE LET r == ParseGlob(tm, Head(globs))
         IN  IF r.err # "none" THEN r ELSE ParseGlobs(r.tmpl, Tail(globs))

\* strings.Join(globs, ",")
RECURSIVE Join(_, _)
Join(globs, sep) ==
    IF globs = << >> THEN ""
    ELSE IF Len(globs) = 1 THEN globs[1]
    ELSE globs[1] \o sep \o Join(Tail(globs), sep)

CacheKey(globs) == Join(globs, ",")

\* ------------------------------------------------------------------ state

VARIABLES
    compile_mode,   \* package variable compile_mode
    baseOk,         \* the file t.base names exists and parses
    t,              \* Template.t, the compiled base
    dirty,          \* Template.dirty
    funcs,          \* Template.funcs
    blocks,         \* Template.blocks
    compiled,       \* Template.compiled, the per-call cache
    compile_lock,   \* Template.compile_lock: w the writer (0: none), r the readers
    pc,             \* per goroutine: the statement it is about to run
    op,             \* per goroutine: the public method it is inside
    args,           \* per goroutine: the call's arguments (Execute's globs,
                    \* Call's name and callable)
    tmpl,           \* per goroutine: the local tmpl
    err,            \* per goroutine: the named result err ("panic": unwinding)
    didCompile,     \* per goroutine: this Execute called Compile
    pre,            \* per goroutine, history: t and compiled as its Compile
                    \* found them (in sequential runs kept until Execute returns)
    last            \* history, kept in sequential runs only ("off" otherwise):
                    \* what the call that returned last did: "Register" (a
                    \* Blocks or Call), "FuncErr" (a Compile that failed binding
                    \* functions), "Fix" (a Call of a valid callable right after
                    \* such a Compile), "other"

shared == <<compile_mode, baseOk, t, dirty, funcs, blocks, compiled, compile_lock>>
locals == <<pc, op, args, tmpl, err, didCompile, pre>>
vars == <<shared, locals, last>>

NoPre == [t |-> NoTemplate, compiled |-> NoCache]

Holds(self) == compile_lock.w = self \/ self \in compile_lock.r

\* Parse(file)
Parse ==
    /\ compile_mode = Production
    /\ baseOk \in BOOLEAN
    /\ t = NoTemplate
    /\ dirty = FALSE
    /\ funcs = NoFuncs
    /\ blocks = << >>
    /\ compiled = NoCache
    /\ compile_lock = [w |-> 0, r |-> {}]
    /\ pc = [s \in Threads |-> "idle"]
    /\ op = [s \in Threads |-> "none"]
    /\ args = [s \in Threads |-> << >>]
    /\ tmpl = [s \in Threads |-> NoTemplate]
    /\ err = [s \in Threads |-> "none"]
    /\ didCompile = [s \in Threads |-> FALSE]
    /\ pre = [s \in Threads |-> NoPre]

Init == Parse /\ last = "off"

\* ---------------------------------------------------------------- helpers

Goto(self, l) == pc' = [pc EXCEPT ![self] = l]

\* the call returns: its locals go out of scope
Return(self, name) ==
    /\ pc' = [pc EXCEPT ![self] = "idle"]
    /\ op' = [op EXCEPT ![self] = "none"]
    /\ args' = [args EXCEPT ![self] = << >>]
    /\ tmpl' = [tmpl EXCEPT ![self] = NoTemplate]
    /\ err' = [err EXCEPT ![self] = "none"]
    /\ didCompile' = [didCompile EXCEPT ![self] = FALSE]
    /\ pre' = [pre EXCEPT ![self] = NoPre]
    /\ last' = IF last = "off" THEN last ELSE name

\* a goroutine calls a method
Enter(self, name, l) ==
    /\ pc' = [pc EXCEPT ![self] = l]
    /\ op' = [op EXCEPT ![self] = name]
    /\ UNCHANGED <<shared, args, tmpl, err, didCompile, pre, last>>

\* compile_lock.Lock()
Lock(self) ==
    /\ compile_lock.w = 0
    /\ compile_lock.r = {}
    /\ compile_lock' = [compile_lock EXCEPT !.w = self]

\* compile_lock.Unlock()
Unlock(self) == compile_lock' = [compile_lock EXCEPT !.w = 0]

\* compile_lock.RLock()
RLock(self) ==
    /\ compile_lock.w = 0
    /\ compile_lock' = [compile_lock EXCEPT !.r = @ \cup {self}]

\* compile_lock.RUnlock()
RUnlock(self) == compile_lock' = [compile_lock EXCEPT !.r = @ \ {self}]

\* ------------------------------------------------------------ CompileMode

\* func CompileMode(mode Mode) { compile_mode = mode }
CompileMode(self) ==
    /\ pc[self] = "idle"
    /\ \E mode \in {Development, Production} : compile_mode' = mode
    /\ UNCHANGED <<baseOk, t, dirty, funcs, blocks, compiled, compile_lock, locals, last>>

\* ----------------------------------------------------------------- Blocks

BeginBlocks(self) ==
    /\ pc[self] = "idle"
    /\ Enter(self, "Blocks", "b_lock")

BlocksLock(self) ==
    /\ pc[self] = "b_lock"
    /\ Lock(self)
    /\ Goto(self, "b_body")
    /\ UNCHANGED <<compile_mode, baseOk, t, dirty, funcs, blocks, compiled>>
    /\ UNCHANGED <<op, args, tmpl, err, didCompile, pre, last>>

\* Blocks appending without marking the template dirty
BlocksBody_NoDirty(self) ==
    /\ pc[self] = "b_body"
    /\ \E gs \in BlockArgs(Len(blocks)) : blocks' = blocks \o gs
    /\ Goto(self, "b_unlock")
    /\ UNCHANGED <<compile_mode, baseOk, t, dirty, funcs, compiled, compile_lock>>
    /\ UNCHANGED <<op, args, tmpl, err, didCompile, pre, last>>

\* t.blocks = append(t.blocks, globs...); t.dirty = true
BlocksBody(self) ==
    /\ pc[self] = "b_body"
    /\ \E gs \in BlockArgs(Len(blocks)) : blocks' = blocks \o gs
    /\ dirty' = TRUE
    /\ Goto(self, "b_unlock")
    /\ UNCHANGED <<compile_mode, baseOk, t, funcs, compiled, compile_lock>>
    /\ UNCHANGED <<op, args, tmpl, err, didCompile, pre, last>>

BlocksUnlock(self) ==
    /\ pc[self] = "b_unlock"
    /\ Unlock(self)
    /\ Return(self, "Register")
    /\ UNCHANGED <<compile_mode, baseOk, t, dirty, funcs, blocks, compiled>>

\* ------------------------------------------------------------------- Call

BeginCall(self) ==
    /\ pc[self] = "idle"
    /\ Enter(self, "Call", "f_lock")

CallLock(self) ==
    /\ pc[self] = "f_lock"
    /\ Lock(self)
    /\ Goto(self, "f_body")
    /\ UNCHANGED <<compile_mode, baseOk, t, dirty, funcs, blocks, compiled>>
    /\ UNCHANGED <<op, args, tmpl, err, didCompile, pre, last>>

\* t.funcs[name] = fnc; t.dirty = true
CallBody(self) ==
    /\ pc[self] = "f_body"
    /\ \E a \in CallArgs :
          /\ funcs' = [n \in DOMAIN funcs \cup {a[1]} |->
                          IF n = a[1] THEN a[2] ELSE funcs[n]]
          /\ args' = [args EXCEPT ![self] = a]
    /\ dirty' = TRUE
    /\ Goto(self, "f_unlock")
    /\ UNCHANGED <<compile_mode, baseOk, t, blocks, compiled, compile_lock>>
    /\ UNCHANGED <<op, tmpl, err, didCompile, pre, last>>

\* what the history keeps of a returning Call
CallName(self) ==
    IF last = "FuncErr" /\ args[self][2] = "valid" THEN "Fix" ELSE "Register"

CallUnlock(self) ==
    /\ pc[self] = "f_unlock"
    /\ Unlock(self)
    /\ Return(self, CallName(self))
    /\ UNCHANGED <<compile_mode, baseOk, t, dirty, funcs, blocks, compiled>>

\* ---------------------------------------------------------------- Compile

BeginCompile(self) ==
    /\ pc[self] = "idle"
    /\ Enter(self, "Compile", "c_lock")

CompileLock(self) ==
    /\ pc[self] = "c_lock"
    /\ Lock(self)
    /\ pre' = [pre EXCEPT ![self] = [t |-> t, compiled |-> compiled]]
    /\ Goto(self, "c_build")
    /\ UNCHANGED <<compile_mode, baseOk, t, dirty, funcs, blocks, compiled>>
    /\ UNCHANGED <<op, args, tmpl, err, didCompile, last>>

\* tmpl.Funcs(t.funcs) with no recover: the panic leaves Compile
BindFuncs_NoRecover(fm) ==
    IF \E n \in DOMAIN fm : fm[n] = "invalid" THEN "panic" ELSE "none"

\* tmpl.Funcs(t.funcs) under the deferred recover: a callable the engine
\* rejects makes Funcs panic, and the recover turns the panic into err
BindFuncs(fm) ==
    IF \E n \in DOMAIN fm : fm[n] = "invalid" THEN "funcs" ELSE "none"

\* the local part of Compile: the template it builds, and its err
BuildBase(ok, fm, bl) ==
    IF ~ok
    THEN [tmpl |-> NoTemplate, err |-> "parse"]
    ELSE IF BindFuncs(fm) # "none"
    THEN [tmpl |-> NoTemplate, err |-> BindFuncs(fm)]
    ELSE ParseGlobs(NewTemplate(TRUE, fm), bl)

\* Compile building in place: every intermediate template goes to t.t
CompileBuild_InPlace(self) ==
    /\ pc[self] = "c_build"
    /\ LET r == BuildBase(baseOk, funcs, blocks)
       IN  /\ tmpl' = [tmpl EXCEPT ![self] = r.tmpl]
           /\ err' = [err EXCEPT ![self] = r.err]
           /\ t' = r.tmpl
           /\ Goto(self, IF r.err = "none" THEN "c_store_t" ELSE "c_unlock")
    /\ UNCHANGED <<compile_mode, baseOk, dirty, funcs, blocks, compiled, compile_lock>>
    /\ UNCHANGED <<op, args, didCompile, pre, last>>

CompileBuild(self) ==
    /\ pc[self] = "c_build"
    /\ LET r == BuildBase(baseOk, funcs, blocks)
       IN  /\ tmpl' = [tmpl EXCEPT ![self] = r.tmpl]
           /\ err' = [err EXCEPT ![self] = r.err]
           /\ Goto(self, IF r.err = "none" THEN "c_store_t" ELSE "c_unlock")
    /\ UNCHANGED <<shared, op, args, didCompile, pre, last>>

\* t.t = tmpl
CompileStoreT(self) ==
    /\ pc[self] = "c_store_t"
    /\ t' = tmpl[self]
    /\ Goto(self, "c_store_dirty")
    /\ UNCHANGED <<compile_mode, baseOk, dirty, funcs, blocks, compiled, compile_lock>>
    /\ UNCHANGED <<op, args, tmpl, err, didCompile, pre, last>>

\* t.dirty = false
CompileStoreDirty(self) ==
    /\ pc[self] = "c_store_dirty"
    /\ dirty' = FALSE
    /\ Goto(self, "c_store_cache")
    /\ UNCHANGED <<compile_mode, baseOk, t, funcs, blocks, compiled, compile_lock>>
    /\ UNCHANGED <<op, args, tmpl, err, didCompile, pre, last>>

\* Compile leaving the per-call cache as it is
CompileStoreCache_Keep(self) ==
    /\ pc[self] = "c_store_cache"
    /\ Goto(self, "c_unlock")
    /\ UNCHANGED <<shared, op, args, tmpl, err, didCompile, pre, last>>

\* t.compiled = map[string]*template.Template{}
CompileStoreCache(self) ==
    /\ pc[self] = "c_store_cache"
    /\ compiled' = NoCache
    /\ Goto(self, "c_unlock")
    /\ UNCHANGED <<compile_mode, baseOk, t, dirty, funcs, blocks, compile_lock>>
    /\ UNCHANGED <<op, args, tmpl, err, didCompile, pre, last>>

\* Compile unlocking only at its last statement, with no defer: the early
\* returns on an error leave with the lock held
CompileUnlock_NoDefer(self) ==
    /\ pc[self] = "c_unlock"
    /\ compile_lock' = IF err[self] = "none"
                       THEN [compile_lock EXCEPT !.w = 0] ELSE compile_lock
    /\ IF op[self] = "Compile"
       THEN Return(self, IF err[self] = "funcs" THEN "FuncErr" ELSE "other")
       ELSE IF err[self] # "none"
       THEN Return(self, "other")
       ELSE /\ Goto(self, "e_rlock")
            /\ tmpl' = [tmpl EXCEPT ![self] = NoTemplate]
            /\ pre' = IF last = "off" THEN [pre EXCEPT ![self] = NoPre] ELSE pre
            /\ UNCHANGED <<op, args, err, didCompile, last>>
    /\ UNCHANGED <<compile_mode, baseOk, t, dirty, funcs, blocks, compiled>>

\* the deferred Unlock, and the return: to the caller of Compile, or into
\* Execute, which returns the error or goes on to its read lock
CompileUnlock(self) ==
    /\ pc[self] = "c_unlock"
    /\ Unlock(self)
    /\ IF op[self] = "Compile"
       THEN Return(self, IF err[self] = "funcs" THEN "FuncErr" ELSE "other")
       ELSE IF err[self] # "none"
       THEN Return(self, "other")
       ELSE /\ Goto(self, "e_rlock")
            /\ tmpl' = [tmpl EXCEPT ![self] = NoTemplate]
            /\ pre' = IF last = "off" THEN [pre EXCEPT ![self] = NoPre] ELSE pre
            /\ UNCHANGED <<op, args, err, didCompile, last>>
    /\ UNCHANGED <<compile_mode, baseOk, t, dirty, funcs, blocks, compiled>>

\* ---------------------------------------------------------------- Execute

BeginExecute(self) ==
    /\ pc[self] = "idle"
    /\ Enter(self, "Execute", "e_check")

\* if t.dirty || compile_mode == Development { err = t.Compile() ... }
ExecCheck(self) ==
    /\ pc[self] = "e_check"
    /\ IF dirty \/ compile_mode = Development
       THEN /\ didCompile' = [didCompile EXCEPT ![self] = TRUE]
            /\ Goto(self, "c_lock")
       ELSE /\ Goto(self, "e_rlock")
            /\ UNCHANGED didCompile
    /\ UNCHANGED <<shared, op, args, tmpl, err, pre, last>>

\* Execute going on to read t.t without taking the read lock
ExecRLock_NoLock(self) ==
    /\ pc[self] = "e_rlock"
    /\ \E gs \in ExecGlobLists :
          /\ args' = [args EXCEPT ![self] = gs]
          /\ Goto(self, IF Len(gs) > 0 THEN "g_lookup" ELSE "e_base")
    /\ UNCHANGED <<compile_mode, baseOk, t, dirty, funcs, blocks, compiled, compile_lock>>
    /\ UNCHANGED <<op, tmpl, err, didCompile, pre, last>>

\* t.compile_lock.RLock(); if len(globs) > 0 { ... } else { ... }
\* (the globs argument is drawn here, where the call first looks at it)
ExecRLock(self) ==
    /\ pc[self] = "e_rlock"
    /\ RLock(self)
    /\ \E gs \in ExecGlobLists :
          /\ args' = [args EXCEPT ![self] = gs]
          /\ Goto(self, IF Len(gs) > 0 THEN "g_lookup" ELSE "e_base")
    /\ UNCHANGED <<compile_mode, baseOk, t, dirty, funcs, blocks, compiled>>
    /\ UNCHANGED <<op, tmpl, err, didCompile, pre, last>>

\* tmpl = t.t
ExecBase(self) ==
    /\ pc[self] = "e_base"
    /\ tmpl' = [tmpl EXCEPT ![self] = t]
    /\ Goto(self, "e_render")
    /\ UNCHANGED <<shared, op, args, err, didCompile, pre, last>>

\* getCachedGlobs never reading the cache back
GetCachedLookup_AlwaysMiss(self) ==
    /\ pc[self] = "g_lookup"
    /\ Goto(self, "g_clone")
    /\ UNCHANGED <<shared, op, args, tmpl, err, didCompile, pre, last>>

\* key := strings.Join(globs, ",")
\* if cached, ex := t.compiled[key]; ex && compile_mode == Production { return cached }
GetCachedLookup(self) ==
    /\ pc[self] = "g_lookup"
    /\ LET key == CacheKey(args[self])
       IN  IF key \in DOMAIN compiled /\ compile_mode = Production
           THEN /\ tmpl' = [tmpl EXCEPT ![self] = compiled[key]]
                /\ Goto(self, "e_render")
           ELSE /\ Goto(self, "g_clone")
                /\ UNCHANGED tmpl
    /\ UNCHANGED <<shared, op, args, err, didCompile, pre, last>>

\* the cache miss of getCachedGlobs, up to its store:
\*   tmpl, _ = t.t.Clone()
\*   for _, glob := range globs { tmpl, err = tmpl.ParseGlob(glob) ... }
\* Clone on a nil *Template dereferences it and panics.
Compose(base, globs) ==
    IF base.nil
    THEN [tmpl |-> NoTemplate, err |-> "panic"]
    ELSE ParseGlobs(Clone(base), globs)

\* getCachedGlobs storing whatever the loop left in tmpl before it looks at err
GetCachedClone_StoreFirst(self) ==
    /\ pc[self] = "g_clone"
    /\ LET r == Compose(t, args[self])
           key == CacheKey(args[self])
       IN  /\ tmpl' = [tmpl EXCEPT ![self] = r.tmpl]
           /\ err' = [err EXCEPT ![self] = r.err]
           /\ compiled' = IF r.err = "glob"
                          THEN [k \in DOMAIN compiled \cup {key} |->
                                   IF k = key THEN r.tmpl ELSE compiled[k]]
                          ELSE compiled
           /\ Goto(self, IF r.err = "none" THEN "g_store" ELSE "e_runlock")
    /\ UNCHANGED <<compile_mode, baseOk, t, dirty, funcs, blocks, compile_lock>>
    /\ UNCHANGED <<op, args, didCompile, pre, last>>

GetCachedClone(self) ==
    /\ pc[self] = "g_clone"
    /\ LET r == Compose(t, args[self])
       IN  /\ tmpl' = [tmpl EXCEPT ![self] = r.tmpl]
           /\ err' = [err EXCEPT ![self] = r.err]
           /\ Goto(self, IF r.err = "none" THEN "g_store" ELSE "e_runlock")
    /\ UNCHANGED <<shared, op, args, didCompile, pre, last>>

\* t.compiled[key] = tmpl
GetCachedStore(self) ==
    /\ pc[self] = "g_store"
    /\ LET key == CacheKey(args[self])
       IN  compiled' = [k \in DOMAIN compiled \cup {key} |->
                           IF k = key THEN tmpl[self] ELSE compiled[k]]
    /\ Goto(self, "e_render")
    /\ UNCHANGED <<compile_mode, baseOk, t, dirty, funcs, blocks, compile_lock>>
    /\ UNCHANGED <<op, args, tmpl, err, didCompile, pre, last>>

\* err = tmpl.Execute(w, ctx): a panic on a nil tmpl; otherwise the engine
\* escapes the template (the base itself, when there are no globs) and
\* renders it, with or without a rendering error
ExecRender(self) ==
    /\ pc[self] = "e_render"
    /\ IF tmpl[self].nil
       THEN /\ err' = [err EXCEPT ![self] = "panic"]
            /\ UNCHANGED t
       ELSE /\ \E e \in {"none", "render"} : err' = [err EXCEPT ![self] = e]
            /\ t' = IF Len(args[self]) = 0 THEN [t EXCEPT !.executed = TRUE] ELSE t
    /\ Goto(self, "e_runlock")
    /\ UNCHANGED <<compile_mode, baseOk, dirty, funcs, blocks, compiled, compile_lock>>
    /\ UNCHANGED <<op, args, tmpl, didCompile, pre, last>>

\* the deferred RUnlock, and the return
ExecRUnlock(self) ==
    /\ pc[self] = "e_runlock"
    /\ RUnlock(self)
    /\ Return(self, "other")
    /\ UNCHANGED <<compile_mode, baseOk, t, dirty, funcs, blocks, compiled>>

\* ------------------------------------------------------------------- Next

\* a step of an Execute call, the Compile it makes included
ExecuteStep(self) ==
    \/ BeginExecute(self) \/ ExecCheck(self)
    \/ CompileLock(self) \/ CompileBuild(self)
    \/ CompileStoreT(self) \/ CompileStoreDirty(self) \/ CompileStoreCache(self)
    \/ CompileUnlock(self)
    \/ ExecRLock(self) \/ ExecBase(self)
    \/ GetCachedLookup(self) \/ GetCachedClone(self) \/ GetCachedStore(self)
    \/ ExecRender(self) \/ ExecRUnlock(self)

\* a step of any other call
ConfigStep(self) ==
    \/ CompileMode(self)
    \/ BeginBlocks(self) \/ BlocksLock(self) \/ BlocksBody(self) \/ BlocksUnlock(self)
    \/ BeginCall(self) \/ CallLock(self) \/ CallBody(self) \/ CallUnlock(self)
    \/ BeginCompile(self)

\* goroutines call into the Template concurrently
Next == \E self \in Threads : ExecuteStep(self) \/ ConfigStep(self)

Spec == Init /\ [][Next]_vars

\* the lock acquisitions of a goroutine, and its other steps inside a call
Acquire(self) ==
    BlocksLock(self) \/ CallLock(self) \/ CompileLock(self) \/ ExecRLock(self)

Proceed(self) ==
    \/ BlocksBody(self) \/ BlocksUnlock(self)
    \/ CallBody(self) \/ CallUnlock(self)
    \/ CompileBuild(self) \/ CompileStoreT(self) \/ CompileStoreDirty(self)
    \/ CompileStoreCache(self) \/ CompileUnlock(self)
    \/ ExecCheck(self) \/ ExecBase(self)
    \/ GetCachedLookup(self) \/ GetCachedClone(self) \/ GetCachedStore(self)
    \/ ExecRender(self) \/ ExecRUnlock(self)

\* The callers of the fair runs: they register under one function name (a
\* valid or an invalid callable) and pass Execute no globs, a list that
\* composes or a list that fails.
FairInputs ==
    /\ DOMAIN funcs \subseteq {"f"}
    /\ \A self \in Threads : args[self] \notin {<<"b">>, <<"g", "valid">>}

FairNext == Next /\ FairInputs'

\* Fair scheduling: a goroutine inside a call keeps running (callers need
\* not call again), and sync.RWMutex is starvation-free: a goroutine blocked
\* in Lock or RLock gets the lock if it is free again and again.
Fairness ==
    \A self \in Threads :
        /\ WF_vars(Proceed(self) /\ FairInputs')
        /\ SF_vars(Acquire(self) /\ FairInputs')

FairSpec == Init /\ [][FairNext]_vars /\ Fairness

\* One goroutine makes all the calls, each after the one before returned;
\* the history of returned calls is kept.
SeqInit == Parse /\ last = "other"

SeqNext == ExecuteStep(1) \/ ConfigStep(1)

SeqSpec == SeqInit /\ [][SeqNext]_vars

\* The function maps and always-blocks lists that Call and Blocks can build
FuncMaps ==
    {fm \in UNION {[D -> {"valid", "invalid"}] : D \in SUBSET {a[1] : a \in CallArgs}} :
        \A n \in DOMAIN fm : <<n, fm[n]>> \in CallArgs}

\* A manager configured before it is shared: Parse, then any chain of Blocks
\* and Call, with the mode set at startup.  From then on the goroutines only
\* call Execute: no Blocks, Call or explicit Compile intervenes.
ServeInit ==
    /\ compile_mode \in {Production, Development}
    /\ baseOk \in BOOLEAN
    /\ t = NoTemplate
    /\ funcs \in FuncMaps
    /\ blocks \in BlockArgs(0)
    /\ dirty \in BOOLEAN
    /\ (funcs # NoFuncs \/ blocks # << >>) => dirty
    /\ compiled = NoCache
    /\ compile_lock = [w |-> 0, r |-> {}]
    /\ pc = [s \in Threads |-> "idle"]
    /\ op = [s \in Threads |-> "none"]
    /\ args = [s \in Threads |-> << >>]
    /\ tmpl = [s \in Threads |-> NoTemplate]
    /\ err = [s \in Threads |-> "none"]
    /\ didCompile = [s \in Threads |-> FALSE]
    /\ pre = [s \in Threads |-> NoPre]
    /\ last = "off"

ServeNext == \E self \in Threads : ExecuteStep(self)

ServeSpec == ServeInit /\ [][ServeNext]_vars

\* getCachedGlobs on its own: each goroutine is inside Execute on a clean
\* compiled manager in Production mode, holds the read lock and calls
\* getCachedGlobs with a glob list of its own
KeyInit ==
    /\ compile_mode = Production
    /\ baseOk = TRUE
    /\ t = NewTemplate(TRUE, NoFuncs)
    /\ funcs = NoFuncs
    /\ blocks = << >>
    /\ dirty = FALSE
    /\ compiled = NoCache
    /\ compile_lock = [w |-> 0, r |-> Threads]
    /\ pc = [s \in Threads |-> "g_lookup"]
    /\ op = [s \in Threads |-> "Execute"]
    /\ args \in [Threads -> KeyLists]
    /\ tmpl = [s \in Threads |-> NoTemplate]
    /\ err = [s \in Threads |-> "none"]
    /\ didCompile = [s \in Threads |-> FALSE]
    /\ pre = [s \in Threads |-> NoPre]
    /\ last = "off"

getCachedGlobs(self) ==
    GetCachedLookup(self) \/ GetCachedClone(self) \/ GetCachedStore(self)

KeyNext == \E self \in Threads : getCachedGlobs(self)

KeySpec == KeyInit /\ [][KeyNext]_vars

\* ------------------------------------------------- accesses to the fields

\* the fields of Template the statement at pc[self] reads
Reads(self) ==
    CASE pc[self] = "b_body" -> {"blocks"}
      [] pc[self] = "c_build" -> {"funcs", "blocks"}
      [] pc[self] = "e_check" -> {"dirty"}
      [] pc[self] = "e_base" -> {"t"}
      [] pc[self] = "g_lookup" -> {"compiled"}
      [] pc[self] = "g_clone" -> {"t"}
      [] OTHER -> {}

\* the fields of Template the statement at pc[self] writes
Writes(self) ==
    CASE pc[self] = "b_body" -> {"blocks", "dirty"}
      [] pc[self] = "f_body" -> {"funcs", "dirty"}
      [] pc[self] = "c_store_t" -> {"t"}
      [] pc[self] = "c_store_dirty" -> {"dirty"}
      [] pc[self] = "c_store_cache" -> {"compiled"}
      [] pc[self] = "g_store" -> {"compiled"}
      [] OTHER -> {}

\* Execute is past its dirty check and the Compile it may have called
PastCheck(self) ==
    pc[self] \in {"e_rlock", "e_base", "g_lookup", "g_clone", "g_store", "e_render"}

HasInvalid(fm) == \E n \in DOMAIN fm : fm[n] = "invalid"
AllMatch(gs) == \A i \in 1 .. Len(gs) : Matches(gs[i])

\* the base was built from the current function map and always-blocks list
BaseCurrent == ~t.nil /\ t.base /\ t.funcs = funcs /\ t.blocks = blocks

\* ----------------------------------------------------------------- claims

\* C1: in every reachable state, if dirty is false then the compiled base is
\* present and was built from the current function map and always-blocks list.
C1_CleanImpliesCompiled == ~dirty => BaseCurrent

\* C2: an Execute that is past its dirty check (the first Execute on a fresh
\* manager in Production mode included) never goes on with an absent compiled
\* base: absence of the base counts as dirty and makes it compile first.
C2_NeverRendersAbsentBase ==
    \A self \in Threads : PastCheck(self) => ~t.nil

\* C3: while goroutines only call Execute, no two of them are at statements
\* that access the per-call cache, the compiled base or the dirty flag with
\* at least one of the two accesses a write.
C3_NoDataRace ==
    \A a, b \in Threads :
        a # b => Writes(a) \cap (Reads(b) \cup Writes(b)) \cap {"compiled", "t", "dirty"} = {}

\* C4: when Compile is about to return an error, dirty is true.
C4_FailedCompileIsDirty ==
    \A self \in Threads : (pc[self] = "c_unlock" /\ err[self] # "none") => dirty

\* C5: when Compile is about to return an error, the compiled base and the
\* per-call cache are what they were when it took the lock.
C5_FailedCompileKeepsBase ==
    \A self \in Threads :
        (pc[self] = "c_unlock" /\ err[self] # "none")
            => (t = pre[self].t /\ compiled = pre[self].compiled)

\* a Compile fails while a good base and cached compositions are stored
C5_Witness ==
    \E self \in Threads :
        /\ pc[self] = "c_unlock" /\ err[self] # "none"
        /\ ~t.nil /\ compiled # NoCache

\* C6: in a sequential run, the Execute that follows a Blocks or Call has
\* called Compile once it is past its dirty check; past the Compile the base
\* is built from the current function map and always-blocks list, and what it
\* renders is that base with the globs of the call merged in.  (A failed
\* Compile makes Execute return from its unlock, before any of this.)
C6_ExecuteAfterRegister ==
    \A self \in Threads :
        (op[self] = "Execute" /\ last \in {"Register", "Fix"}) =>
            /\ pc[self] # "e_check" => didCompile[self]
            /\ PastCheck(self) => BaseCurrent
            /\ pc[self] = "e_render" =>
                  /\ ~tmpl[self].nil /\ tmpl[self].base
                  /\ tmpl[self].funcs = funcs
                  /\ tmpl[self].blocks = blocks \o args[self]

\* the Execute after a Blocks or Call renders, in Production mode, a base that
\* replaced one compiled earlier
C6_Witness ==
    \E self \in Threads :
        /\ op[self] = "Execute" /\ last \in {"Register", "Fix"}
        /\ pc[self] = "e_render"
        /\ compile_mode = Production
        /\ ~pre[self].t.nil /\ pre[self].t # t

\* C7: whenever getCachedGlobs clones a compiled base on a cache miss (there
\* is one to clone), dirty is false.
C7_NoStaleClone ==
    \A self \in Threads : (pc[self] = "g_clone" /\ ~t.nil) => ~dirty

\* C8: every read and write of dirty, the compiled base, the function map,
\* the always-blocks list and the per-call cache happens with compile_lock
\* held by the goroutine, every write with it held exclusively.
C8_FieldsUnderLock ==
    \A self \in Threads :
        /\ (Reads(self) \cup Writes(self)) # {} => Holds(self)
        /\ Writes(self) # {} => compile_lock.w = self

\* C9: a Compile that succeeds makes its three stores holding the exclusive
\* lock, and when it is about to unlock, the template it built (from the
\* current function map and blocks) is the compiled base, dirty is false and
\* the per-call cache is empty.
C9_SuccessfulCompileStores ==
    \A self \in Threads :
        /\ pc[self] \in {"c_store_t", "c_store_dirty", "c_store_cache"}
              => compile_lock.w = self
        /\ (pc[self] = "c_unlock" /\ err[self] = "none") =>
              /\ compile_lock.w = self
              /\ t = tmpl[self] /\ BaseCurrent /\ ~t.executed
              /\ ~dirty
              /\ compiled = NoCache

\* a Compile succeeds that found compositions of another base in the cache
C9_Witness ==
    \E self \in Threads :
        /\ pc[self] = "c_unlock" /\ err[self] = "none"
        /\ pre[self].compiled # NoCache
        /\ ~pre[self].t.nil /\ pre[self].t.funcs # t.funcs

\* C10, as stated: in a sequential run, a Compile that follows the Call of a
\* valid callable, itself following a Compile that failed binding functions,
\* succeeds when the base file and the always-block globs parse.
C10_ValidCallThenCompile ==
    \A self \in Threads :
        (op[self] = "Compile" /\ pc[self] = "c_unlock" /\ last = "Fix"
            /\ baseOk /\ AllMatch(blocks))
            => err[self] = "none"

\* C10, amended: Compile never leaves by a panic, and with an invalid callable
\* registered (and a base file that parses) it returns the binding error; a
\* goroutine that has returned holds no lock; and the Compile that follows a
\* Call which replaced the invalid callable, so that none is left in the
\* function map, succeeds when the base file and the always-block globs parse.
C10_RecoverThenReplace ==
    /\ \A self \in Threads :
          pc[self] = "c_unlock" =>
              /\ err[self] # "panic"
              /\ (baseOk /\ HasInvalid(funcs)) => err[self] = "funcs"
    /\ \A self \in Threads : pc[self] = "idle" => ~Holds(self)
    /\ \A self \in Threads :
          (op[self] = "Compile" /\ pc[self] = "c_unlock" /\ last = "Fix"
              /\ baseOk /\ AllMatch(blocks) /\ ~HasInvalid(funcs))
              => err[self] = "none"

\* a Compile succeeds right after a Call replaced the invalid callable that
\* made the Compile before it fail
C10_Witness ==
    \E self \in Threads :
        /\ op[self] = "Compile" /\ pc[self] = "c_unlock" /\ last = "Fix"
        /\ err[self] = "none"

\* the template is a copy of the compiled base as it is stored now, with
\* exactly the globs gs merged in after the always-blocks
ComposedFrom(tm, gs) ==
    /\ ~tm.nil /\ tm.base
    /\ tm.funcs = t.funcs
    /\ tm.blocks = t.blocks \o gs

\* C11: while the mode is Development (the goroutines only call Execute, the
\* mode is the one set at startup), every Execute past its check has called
\* Compile, whatever dirty was, and the composition an Execute with globs
\* holds after getCachedGlobs' miss path is a clone of the compiled base with
\* the globs of the call merged in.
C11_DevelopmentRecomposes ==
    \A self \in Threads :
        (compile_mode = Development /\ op[self] = "Execute") =>
            /\ pc[self] # "e_check" => didCompile[self]
            /\ (pc[self] \in {"g_store", "e_render"} /\ args[self] # << >>)
                  => ComposedFrom(tmpl[self], args[self])

\* C12: in a sequential run in Production mode, the composition an Execute
\* with globs renders, built by this call or served from the cache where an
\* earlier call with the same list left it, is the compiled base plus exactly
\* the globs of its own list; and composing and storing one list leaves the
\* compiled base and the entries of the other lists as they were.
C12_CompositionOfOwnList ==
    \A self \in Threads :
        (compile_mode = Production /\ op[self] = "Execute") =>
            /\ (pc[self] = "e_render" /\ args[self] # << >>)
                  => ComposedFrom(tmpl[self], args[self])
            /\ pc[self] = "g_store" =>
                  \A k \in DOMAIN compiled \ {CacheKey(args[self])} :
                      \E gs \in ExecGlobLists : k = CacheKey(gs) /\ ComposedFrom(compiled[k], gs)

\* C13: in Production mode, two calls of getCachedGlobs whose glob lists
\* differ as sequences have computed different cache keys, and the
\* composition each call returns, from its own miss or from the cache, holds
\* exactly the globs of its own list: neither is served the composition built
\* for the other.
C13_DistinctListsDistinctEntries ==
    /\ \A a, b \in Threads :
          (pc[a] # "g_lookup" /\ pc[b] # "g_lookup" /\ args[a] # args[b])
              => CacheKey(args[a]) # CacheKey(args[b])
    /\ \A self \in Threads :
          pc[self] = "e_render" => ComposedFrom(tmpl[self], args[self])

\* C14: an Execute that was passed per-call globs (it is inside
\* getCachedGlobs, or renders what getCachedGlobs returned) has called
\* Compile, whatever dirty and the mode were.  (Stated where a compiled base
\* exists, so that the Execute is not the faulting one of a fresh manager.)
C14_GlobsMakeExecuteCompile ==
    \A self \in Threads :
        (/\ op[self] = "Execute" /\ ~t.nil
         /\ \/ pc[self] \in {"g_lookup", "g_clone", "g_store"}
            \/ pc[self] = "e_render" /\ args[self] # << >>)
            => didCompile[self]

\* C15: when a per-call glob fails to match or parse in getCachedGlobs, the
\* step that fails leaves the compiled base and every cache entry as they
\* were and goes to Execute's return, not to the store and not to the render;
\* and the return, with that error, leaves them as they were too.
C15_FailedGlobKeepsBaseAndCache ==
    [][\A self \in Threads :
          /\ (pc[self] = "g_clone" /\ pc'[self] # "g_clone" /\ err'[self] = "glob")
                => (pc'[self] = "e_runlock" /\ t' = t /\ compiled' = compiled)
          /\ (pc[self] = "e_runlock" /\ err[self] = "glob" /\ pc'[self] # "e_runlock")
                => (pc'[self] = "idle" /\ t' = t /\ compiled' = compiled)]_vars

\* a per-call glob has failed while a base and cached compositions are stored
C15_Witness ==
    \E self \in Threads :
        /\ pc[self] = "e_runlock" /\ err[self] = "glob"
        /\ ~t.nil /\ compiled # NoCache

\* the fields of the manager; of the compiled base, which handle t.t is (the
\* engine's own mark on the handle that it has been executed is not a field)
ManagerFields == <<dirty, funcs, blocks, compiled, [t EXCEPT !.executed = FALSE]>>

UnderRLock(self) ==
    pc[self] \in {"e_base", "g_lookup", "g_clone", "g_store", "e_render", "e_runlock"}

\* Compile is between its Lock and its deferred Unlock
InCompile(self) ==
    pc[self] \in {"c_build", "c_store_t", "c_store_dirty", "c_store_cache", "c_unlock"}

\* C17: under any interleaving, while an Execute is where it reads, clones or
\* renders the base, it holds the read lock, no Compile is anywhere between
\* its Lock and Unlock (none is partly done) and nobody holds the write lock;
\* the base stored, if there is one, is exactly what one successful Compile
\* builds from a function map and an always-blocks list; and the base an
\* Execute without globs renders is the very one stored, the one the latest
\* completed Compile left.
C17_ExecuteReadsCompleteBase ==
    \A self \in Threads :
        UnderRLock(self) =>
            /\ self \in compile_lock.r /\ compile_lock.w = 0
            /\ \A other \in Threads : ~InCompile(other)
            /\ ~t.nil =>
                  BuildBase(TRUE, t.funcs, t.blocks)
                      = [tmpl |-> [t EXCEPT !.executed = FALSE], err |-> "none"]
            /\ (pc[self] = "e_render" /\ args[self] = << >>) =>
                  [tmpl[self] EXCEPT !.executed = FALSE] = [t EXCEPT !.executed = FALSE]

\* an Execute is about to clone a compiled base while another goroutine, with
\* the manager dirty, waits for the write lock to compile
C17_Witness ==
    \E self, other \in Threads :
        /\ pc[self] = "g_clone" /\ ~t.nil
        /\ pc[other] = "c_lock" /\ dirty

\* C18: in every reachable state where no Compile is between its Lock and
\* its Unlock, every entry of the per-call cache is a clone of the compiled
\* base stored now, with the globs of its key merged in.
C18_CacheFromCurrentBase ==
    (\A self \in Threads : ~InCompile(self)) =>
        \A k \in DOMAIN compiled :
            \E gs \in ExecGlobLists : k = CacheKey(gs) /\ ComposedFrom(compiled[k], gs)

\* the Clone at line 124 has failed: the compiled base was already executed
\* and getCachedGlobs went on from the nil handle Clone returned
CloneFailed(self) == pc[self] = "g_store" /\ ~tmpl[self].base

\* C20: in a sequential run, getCachedGlobs never goes on past a Clone that
\* failed (to store what it built from the handle Clone did not return, and
\* have it rendered), and no entry of the cache was built that way: the
\* failure makes Execute return an error.
C20_CloneFailureReturnsError ==
    /\ \A self \in Threads : ~CloneFailed(self)
    /\ \A k \in DOMAIN compiled : compiled[k].base

\* the statements at which a goroutine holds compile_lock
HoldsWrite(self) == pc[self] \in {"b_body", "b_unlock", "f_body", "f_unlock"} \/ InCompile(self)

\* C19: a goroutine holds the write lock exactly inside the locked part of
\* Blocks, Call and Compile and the read lock exactly inside the locked part
\* of Execute, so it holds nothing where it acquires (Execute's Compile has
\* unlocked before Execute's RLock) and nothing once it has returned, by an
\* error or by the recovered panic as well; and under fair scheduling every
\* call returns.
C19_EveryCallReturns ==
    /\ [](\A self \in Threads :
            /\ (compile_lock.w = self) <=> HoldsWrite(self)
            /\ (self \in compile_lock.r) <=> UnderRLock(self))
    /\ \A self \in Threads : (pc[self] # "idle") ~> (pc[self] = "idle")

\* a Compile is about to leave with the binding error of the recovered panic,
\* holding the write lock, while the other goroutine is blocked on the lock
C19_Witness ==
    \E self, other \in Threads :
        /\ pc[self] = "c_unlock" /\ err[self] = "funcs"
        /\ pc[other] \in {"b_lock", "f_lock", "c_lock", "e_rlock"}

====
